---- MODULE Spec2Model ----
(***************************************************************************)
(* Model of mstfilter.py: the UnionFind class, the complete graph, the     *)
(* MST-style cluster filter, box fitting, box scaling, the containment     *)
(* test and the pipeline bound_box_coords.                                 *)
(*                                                                         *)
(* Conventions of the translation                                          *)
(*  - Python lists are sequences, so list index k of the source is index   *)
(*    k+1 here (range(n) is 1..n).  Every comparison between indices, and  *)
(*    the identity parent[k] = k, keeps its meaning.                       *)
(*  - A real number the caller passes (cutoff, factor) is a pair           *)
(*    <<num, den>> with den > 0; the model only draws dyadic values (and   *)
(*    -1/10, which is only ever compared with 0), for which the source's   *)
(*    float arithmetic is exact.                                           *)
(*  - An edge's dist field holds the radicand (x_1-x_2)^2 + (y_1-y_2)^2.   *)
(*    sqrt is strictly increasing on the small integers used, dist is only *)
(*    ever used as a sort key, so the order of the edges is the source's.  *)
(*  - A box is [min, max, den]: the corners in units of 1/den, since       *)
(*    _scale_dimensions halves the extents.                                *)
(***************************************************************************)
EXTENDS Integers, Sequences, FiniteSets, TLC

\* Bounds of the model.
MaxCoord == 1
MaxN == 3
MaxUF == 4

VARIABLES
    xy_list,        \* the caller's point list
    cutoff,         \* the caller's cutoff, <<num, den>>
    pc,             \* position in bound_box_coords / _cluster_filter
    graph,          \* the edge list: <<dist, coord_1, coord_2>> entries
    clusters,       \* the UnionFind object: [parent, size]
    i,              \* number of iterations of the edge loop begun so far
    root,           \* <<>> while unbound, <<r>> once assigned
    union_frame,    \* locals of the latest union call
    good_vertices,  \* the local list of that name
    bound_box,      \* the local box of that name
    scale_factor,   \* the factor of the latest _scale_dimensions call, <<num, den>>
    outcome         \* "running", "returned", or the exception that ended the call

vars == <<xy_list, cutoff, pc, graph, clusters, i, root, union_frame,
          good_vertices, bound_box, scale_factor, outcome>>

----------------------------------------------------------------------------
\* Inputs

Point == (0..MaxCoord) \X (0..MaxCoord)

\* Scenario A and Scenario B of the documentation, as extra inputs.
ScenarioA == << <<0, 0>>, <<1, 0>>, <<0, 1>>, <<1, 1>>, <<50, 50>> >>
ScenarioB == << <<2, 2>>, <<2, 2>>, <<2, 2>>, <<2, 2>> >>

PointLists == (UNION {[1..k -> Point] : k \in 0..MaxN}) \cup {ScenarioA, ScenarioB}

Cutoffs == { <<0 - 1, 10>>, <<0, 1>>, <<1, 2>>, <<3, 4>>, <<1, 1>>, <<3, 2>> }

\* 0 <= cutoff <= 1
CutoffInRange(c) == 0 <= c[1] /\ c[1] <= c[2]

----------------------------------------------------------------------------
\* class UnionFind

UnionFind(n) == [parent |-> [k \in 1..n |-> k], size |-> [k \in 1..n |-> 1]]

RECURSIVE find(_, _)
find(uf, v_index) ==
    IF v_index # uf.parent[v_index]
    THEN find(uf, uf.parent[v_index])
    ELSE v_index

\* Variants of union, each with one slip: the size of the surviving root is
\* not updated when i is absorbed; the test i == j is missing; a tie absorbs i.
union_NoSizeUpdate(uf, v_index_1, v_index_2) ==
    LET ri == find(uf, v_index_1)
        rj == find(uf, v_index_2)
    IN  IF ri = rj
        THEN [parent |-> uf.parent, size |-> uf.size, ret |-> ri, i |-> ri, j |-> rj]
        ELSE IF uf.size[ri] < uf.size[rj]
        THEN [parent |-> [uf.parent EXCEPT ![ri] = rj],
              size   |-> uf.size,
              ret    |-> rj, i |-> ri, j |-> rj]
        ELSE [parent |-> [uf.parent EXCEPT ![rj] = ri],
              size   |-> [uf.size EXCEPT ![ri] = uf.size[ri] + uf.size[rj]],
              ret    |-> ri, i |-> ri, j |-> rj]

union_NoEarlyReturn(uf, v_index_1, v_index_2) ==
    LET ri == find(uf, v_index_1)
        rj == find(uf, v_index_2)
    IN  IF uf.size[ri] < uf.size[rj]
        THEN [parent |-> [uf.parent EXCEPT ![ri] = rj],
              size   |-> [uf.size EXCEPT ![rj] = uf.size[rj] + uf.size[ri]],
              ret    |-> rj, i |-> ri, j |-> rj]
        ELSE [parent |-> [uf.parent EXCEPT ![rj] = ri],
              size   |-> [uf.size EXCEPT ![ri] = uf.size[ri] + uf.size[rj]],
              ret    |-> ri, i |-> ri, j |-> rj]

union_TieToJ(uf, v_index_1, v_index_2) ==
    LET ri == find(uf, v_index_1)
        rj == find(uf, v_index_2)
    IN  IF ri = rj
        THEN [parent |-> uf.parent, size |-> uf.size, ret |-> ri, i |-> ri, j |-> rj]
        ELSE IF uf.size[ri] <= uf.size[rj]
        THEN [parent |-> [uf.parent EXCEPT ![ri] = rj],
              size   |-> [uf.size EXCEPT ![rj] = uf.size[rj] + uf.size[ri]],
              ret    |-> rj, i |-> ri, j |-> rj]
        ELSE [parent |-> [uf.parent EXCEPT ![rj] = ri],
              size   |-> [uf.size EXCEPT ![ri] = uf.size[ri] + uf.size[rj]],
              ret    |-> ri, i |-> ri, j |-> rj]

\* union without the two find calls: the first argument is linked under the
\* second whatever their roots are.
union_NoFind(uf, v_index_1, v_index_2) ==
    IF v_index_1 = v_index_2
    THEN [parent |-> uf.parent, size |-> uf.size, ret |-> v_index_1,
          i |-> v_index_1, j |-> v_index_2]
    ELSE [parent |-> [uf.parent EXCEPT ![v_index_1] = v_index_2],
          size   |-> [uf.size EXCEPT ![v_index_2] = uf.size[v_index_2] + uf.size[v_index_1]],
          ret    |-> v_index_2, i |-> v_index_1, j |-> v_index_2]

\* union as a function of the object: the new parent and size arrays, the
\* value returned, and the two locals i and j.
union(uf, v_index_1, v_index_2) ==
    LET ri == find(uf, v_index_1)
        rj == find(uf, v_index_2)
    IN  IF ri = rj
        THEN [parent |-> uf.parent, size |-> uf.size, ret |-> ri, i |-> ri, j |-> rj]
        ELSE IF uf.size[ri] < uf.size[rj]
        THEN [parent |-> [uf.parent EXCEPT ![ri] = rj],
              size   |-> [uf.size EXCEPT ![rj] = uf.size[rj] + uf.size[ri]],
              ret    |-> rj, i |-> ri, j |-> rj]
        ELSE [parent |-> [uf.parent EXCEPT ![rj] = ri],
              size   |-> [uf.size EXCEPT ![ri] = uf.size[ri] + uf.size[rj]],
              ret    |-> ri, i |-> ri, j |-> rj]

NoCall == [v_index_1 |-> 0, v_index_2 |-> 0, i |-> 0, j |-> 0]

Frame(a, b, u) == [v_index_1 |-> a, v_index_2 |-> b, i |-> u.i, j |-> u.j]

----------------------------------------------------------------------------
\* list.sort(key=lambda e: e[k]): stable, ascending on component k.

RECURSIVE Insert(_, _, _)
Insert(sorted, e, k) ==
    IF sorted = <<>> THEN <<e>>
    ELSE IF e[k] < Head(sorted)[k] THEN <<e>> \o sorted
    ELSE <<Head(sorted)>> \o Insert(Tail(sorted), e, k)

\* A sort that leaves the list as it is.
sort_None(list, k) == list

RECURSIVE sort(_, _)
sort(list, k) ==
    IF list = <<>> THEN <<>>
    ELSE Insert(sort(SubSeq(list, 1, Len(list) - 1), k), list[Len(list)], k)

----------------------------------------------------------------------------
\* _complete_graph

Edge(coord_1, coord_2) ==
    << (coord_1[1] - coord_2[1]) * (coord_1[1] - coord_2[1])
       + (coord_1[2] - coord_2[2]) * (coord_1[2] - coord_2[2]),
       coord_1, coord_2 >>

RECURSIVE EdgesFrom(_, _, _)
EdgesFrom(xy, a, b) ==
    IF a > Len(xy) THEN <<>>
    ELSE IF b > Len(xy) THEN EdgesFrom(xy, a + 1, a + 2)
    ELSE <<Edge(xy[a], xy[b])>> \o EdgesFrom(xy, a, b + 1)

_complete_graph(xy) == EdgesFrom(xy, 1, 2)

----------------------------------------------------------------------------
\* _cluster_filter

\* str(coord): the key of the lookup.
str(coord) == ToString(coord)

\* {str(xy_list[i]): i for i in range(n)}: a later index overwrites an earlier
\* one with the same key.
coord_to_index(xy) ==
    [key \in {str(xy[k]) : k \in 1..Len(xy)} |->
        CHOOSE k \in 1..Len(xy) :
            /\ str(xy[k]) = key
            /\ \A m \in 1..Len(xy) : str(xy[m]) = key => m <= k]

\* The break test with > in place of >=.
ReachedCutoff_Strict(sz, c, n) == sz * c[2] > c[1] * n

\* clusters.size[root] >= cutoff * n
ReachedCutoff(sz, c, n) == sz * c[2] >= c[1] * n

\* The comprehension with one slip: membership is looked up through the
\* coordinate's index in coord_to_index, not through the position.
Members_ByCoord(xy, uf, r) ==
    LET idx == SelectSeq([k \in 1..Len(xy) |-> k],
                         LAMBDA k : r = <<find(uf, coord_to_index(xy)[str(xy[k])])>>)
    IN  [m \in 1..Len(idx) |-> xy[idx[m]]]

\* [xy_list[i] for i in range(n) if root == clusters.find(i)]
Members(xy, uf, r) ==
    LET idx == SelectSeq([k \in 1..Len(xy) |-> k], LAMBDA k : r = <<find(uf, k)>>)
    IN  [m \in 1..Len(idx) |-> xy[idx[m]]]

----------------------------------------------------------------------------
\* _fit_box, _scale_dimensions, _is_in_box

NoBox == [min |-> <<>>, max |-> <<>>, den |-> 0]

\* _fit_box with one slip: the y bounds are read before the second sort.
_fit_box_YBeforeSort(vertices) ==
    LET n == Len(vertices)
        by_x == sort(vertices, 1)
        by_y == sort(by_x, 2)
    IN  IF n = 0
        THEN [ok |-> FALSE, box |-> NoBox, list |-> by_x]
        ELSE [ok |-> TRUE,
              box |-> [min |-> <<by_x[1][1], by_x[1][2]>>,
                       max |-> <<by_x[n][1], by_x[n][2]>>,
                       den |-> 1],
              list |-> by_y]

\* The box and the list as the two in-place sorts leave it; ok is FALSE when
\* good_vertices[0] raises IndexError.
_fit_box(vertices) ==
    LET n == Len(vertices)
        by_x == sort(vertices, 1)
        by_y == sort(by_x, 2)
    IN  IF n = 0
        THEN [ok |-> FALSE, box |-> NoBox, list |-> by_x]
        ELSE [ok |-> TRUE,
              box |-> [min |-> <<by_x[1][1], by_y[1][2]>>,
                       max |-> <<by_x[n][1], by_y[n][2]>>,
                       den |-> 1],
              list |-> by_y]

\* _scale_dimensions with one slip each: the margin is factor times the
\* half-extent instead of (factor - 1) times; only a negative factor is
\* refused; the margin is the absolute value of (factor - 1) times the
\* half-extent.
_scale_dimensions_NoMinusOne(box, factor) ==
    LET fn == factor[1]
        fd == factor[2]
        x_min == box.min[1]
        y_min == box.min[2]
        x_max == box.max[1]
        y_max == box.max[2]
        x_scale == fn * (x_max - x_min)
        y_scale == fn * (y_max - y_min)
    IN  IF fn <= 0
        THEN [ok |-> FALSE, box |-> NoBox]
        ELSE [ok |-> TRUE,
              box |-> [min |-> <<2 * fd * x_min - x_scale, 2 * fd * y_min - y_scale>>,
                       max |-> <<2 * fd * x_max + x_scale, 2 * fd * y_max + y_scale>>,
                       den |-> 2 * fd * box.den]]

_scale_dimensions_ZeroAccepted(box, factor) ==
    LET fn == factor[1]
        fd == factor[2]
        x_min == box.min[1]
        y_min == box.min[2]
        x_max == box.max[1]
        y_max == box.max[2]
        x_scale == (fn - fd) * (x_max - x_min)
        y_scale == (fn - fd) * (y_max - y_min)
    IN  IF fn < 0
        THEN [ok |-> FALSE, box |-> NoBox]
        ELSE [ok |-> TRUE,
              box |-> [min |-> <<2 * fd * x_min - x_scale, 2 * fd * y_min - y_scale>>,
                       max |-> <<2 * fd * x_max + x_scale, 2 * fd * y_max + y_scale>>,
                       den |-> 2 * fd * box.den]]

_scale_dimensions_AbsMargin(box, factor) ==
    LET fn == factor[1]
        fd == factor[2]
        x_min == box.min[1]
        y_min == box.min[2]
        x_max == box.max[1]
        y_max == box.max[2]
        m == IF fn >= fd THEN fn - fd ELSE fd - fn
        x_scale == m * (x_max - x_min)
        y_scale == m * (y_max - y_min)
    IN  IF fn <= 0
        THEN [ok |-> FALSE, box |-> NoBox]
        ELSE [ok |-> TRUE,
              box |-> [min |-> <<2 * fd * x_min - x_scale, 2 * fd * y_min - y_scale>>,
                       max |-> <<2 * fd * x_max + x_scale, 2 * fd * y_max + y_scale>>,
                       den |-> 2 * fd * box.den]]

\* factor is <<fn, fd>>; the result is in units of 1/(2 * fd) of the input's.
_scale_dimensions(box, factor) ==
    LET fn == factor[1]
        fd == factor[2]
        x_min == box.min[1]
        y_min == box.min[2]
        x_max == box.max[1]
        y_max == box.max[2]
        x_scale == (fn - fd) * (x_max - x_min)
        y_scale == (fn - fd) * (y_max - y_min)
    IN  IF fn <= 0
        THEN [ok |-> FALSE, box |-> NoBox]
        ELSE [ok |-> TRUE,
              box |-> [min |-> <<2 * fd * x_min - x_scale, 2 * fd * y_min - y_scale>>,
                       max |-> <<2 * fd * x_max + x_scale, 2 * fd * y_max + y_scale>>,
                       den |-> 2 * fd * box.den]]

\* Containment tests with one slip each: the y test is missing; the bounds
\* are exclusive.
_is_in_box_XOnly(coord, box) ==
    box.min[1] <= coord[1] * box.den /\ coord[1] * box.den <= box.max[1]

_is_in_box_Strict(coord, box) ==
    /\ box.min[1] < coord[1] * box.den /\ coord[1] * box.den < box.max[1]
    /\ box.min[2] < coord[2] * box.den /\ coord[2] * box.den < box.max[2]

_is_in_box(coord, box) ==
    /\ box.min[1] <= coord[1] * box.den /\ coord[1] * box.den <= box.max[1]
    /\ box.min[2] <= coord[2] * box.den /\ coord[2] * box.den <= box.max[2]

\* The factor bound_box_coords passes.
PipelineFactor == <<2, 1>>

----------------------------------------------------------------------------
\* bound_box_coords, step by step

Init ==
    /\ xy_list \in PointLists
    /\ cutoff \in Cutoffs
    /\ pc = "start"
    /\ graph = <<>>
    /\ clusters = UnionFind(0)
    /\ i = 0
    /\ root = <<>>
    /\ union_frame = NoCall
    /\ good_vertices = <<>>
    /\ bound_box = NoBox
    /\ scale_factor = <<>>
    /\ outcome = "running"

\* graph = _complete_graph(xy_list)
BuildGraph ==
    /\ pc = "start"
    /\ graph' = _complete_graph(xy_list)
    /\ pc' = "cluster"
    /\ UNCHANGED <<xy_list, cutoff, clusters, i, root, union_frame,
                   good_vertices, bound_box, outcome>>
    /\ UNCHANGED scale_factor

\* _cluster_filter up to the loop: the cutoff test, the sort, the UnionFind.
ClusterEnter ==
    /\ pc = "cluster"
    /\ IF ~CutoffInRange(cutoff)
       THEN /\ pc' = "raised"
            /\ outcome' = "SystemExit"
            /\ UNCHANGED <<graph, clusters>>
       ELSE /\ graph' = sort(graph, 1)
            /\ clusters' = UnionFind(Len(xy_list))
            /\ pc' = "loop"
            /\ UNCHANGED outcome
    /\ UNCHANGED <<xy_list, cutoff, i, root, union_frame, good_vertices, bound_box>>
    /\ UNCHANGED scale_factor

\* One iteration of the edge loop.
LoopStep ==
    /\ pc = "loop"
    /\ i < Len(graph)
    /\ LET entry == graph[i + 1]
           v_index_1 == coord_to_index(xy_list)[str(entry[2])]
           v_index_2 == coord_to_index(xy_list)[str(entry[3])]
           u == union(clusters, v_index_1, v_index_2)
       IN  /\ clusters' = [parent |-> u.parent, size |-> u.size]
           /\ root' = <<u.ret>>
           /\ union_frame' = Frame(v_index_1, v_index_2, u)
           /\ i' = i + 1
           /\ pc' = IF ReachedCutoff(u.size[u.ret], cutoff, Len(xy_list))
                    THEN "select"
                    ELSE "loop"
    /\ UNCHANGED <<xy_list, cutoff, graph, good_vertices, bound_box, outcome>>
    /\ UNCHANGED scale_factor

\* The loop ends because the edge list is exhausted.
LoopExhausted ==
    /\ pc = "loop"
    /\ i = Len(graph)
    /\ pc' = "select"
    /\ UNCHANGED <<xy_list, cutoff, graph, clusters, i, root, union_frame,
                   good_vertices, bound_box, outcome>>
    /\ UNCHANGED scale_factor

\* The list comprehension of line 81: root is read at the first iteration.
Select ==
    /\ pc = "select"
    /\ IF Len(xy_list) >= 1 /\ root = <<>>
       THEN /\ pc' = "raised"
            /\ outcome' = "NameError"
            /\ UNCHANGED good_vertices
       ELSE /\ good_vertices' = Members(xy_list, clusters, root)
            /\ pc' = "fit"
            /\ UNCHANGED outcome
    /\ UNCHANGED <<xy_list, cutoff, graph, clusters, i, root, union_frame, bound_box>>
    /\ UNCHANGED scale_factor

\* The first _fit_box call as it would act if the cluster list were the
\* caller's list itself: the two in-place sorts reorder xy_list too.
FitCluster_SortsInput ==
    /\ pc = "fit"
    /\ LET r == _fit_box(good_vertices)
       IN  /\ good_vertices' = r.list
           /\ xy_list' = sort(sort(xy_list, 1), 2)
           /\ IF r.ok
              THEN /\ bound_box' = r.box
                   /\ pc' = "scale"
                   /\ UNCHANGED outcome
              ELSE /\ pc' = "raised"
                   /\ outcome' = "IndexError"
                   /\ UNCHANGED bound_box
    /\ UNCHANGED <<cutoff, graph, clusters, i, root, union_frame>>
    /\ UNCHANGED scale_factor

\* bound_box = _fit_box(good_vertices), first call
FitCluster ==
    /\ pc = "fit"
    /\ LET r == _fit_box(good_vertices)
       IN  /\ good_vertices' = r.list
           /\ IF r.ok
              THEN /\ bound_box' = r.box
                   /\ pc' = "scale"
                   /\ UNCHANGED outcome
              ELSE /\ pc' = "raised"
                   /\ outcome' = "IndexError"
                   /\ UNCHANGED bound_box
    /\ UNCHANGED <<xy_list, cutoff, graph, clusters, i, root, union_frame>>
    /\ UNCHANGED scale_factor

\* bound_box = _scale_dimensions(bound_box, 2)
Scale ==
    /\ pc = "scale"
    /\ scale_factor' = PipelineFactor
    /\ LET r == _scale_dimensions(bound_box, PipelineFactor)
       IN  IF r.ok
           THEN /\ bound_box' = r.box
                /\ pc' = "refilter"
                /\ UNCHANGED outcome
           ELSE /\ pc' = "raised"
                /\ outcome' = "Exception"
                /\ UNCHANGED bound_box
    /\ UNCHANGED <<xy_list, cutoff, graph, clusters, i, root, union_frame, good_vertices>>

\* good_vertices = [coord for coord in xy_list if _is_in_box(coord, bound_box)]
Refilter ==
    /\ pc = "refilter"
    /\ good_vertices' = SelectSeq(xy_list, LAMBDA coord : _is_in_box(coord, bound_box))
    /\ pc' = "refit"
    /\ UNCHANGED <<xy_list, cutoff, graph, clusters, i, root, union_frame,
                   bound_box, outcome>>
    /\ UNCHANGED scale_factor

\* bound_box = _fit_box(good_vertices), second call, and the return
FitFinal ==
    /\ pc = "refit"
    /\ LET r == _fit_box(good_vertices)
       IN  /\ good_vertices' = r.list
           /\ IF r.ok
              THEN /\ bound_box' = r.box
                   /\ pc' = "done"
                   /\ outcome' = "returned"
              ELSE /\ pc' = "raised"
                   /\ outcome' = "IndexError"
                   /\ UNCHANGED bound_box
    /\ UNCHANGED <<xy_list, cutoff, graph, clusters, i, root, union_frame>>
    /\ UNCHANGED scale_factor

Next ==
    \/ BuildGraph
    \/ ClusterEnter
    \/ LoopStep
    \/ LoopExhausted
    \/ Select
    \/ FitCluster
    \/ Scale
    \/ Refilter
    \/ FitFinal

Spec == Init /\ [][Next]_vars

----------------------------------------------------------------------------
\* The UnionFind class on its own: any sequence of union calls on UnionFind(n).

InitUF ==
    /\ xy_list = <<>>
    /\ cutoff = <<0, 1>>
    /\ pc = "uf"
    /\ graph = <<>>
    /\ \E n \in 1..MaxUF : clusters = UnionFind(n)
    /\ i = 0
    /\ root = <<>>
    /\ union_frame = NoCall
    /\ good_vertices = <<>>
    /\ bound_box = NoBox
    /\ scale_factor = <<>>
    /\ outcome = "running"

UnionCall ==
    /\ pc = "uf"
    /\ \E a, b \in 1..Len(clusters.parent) :
          LET u == union(clusters, a, b)
          IN  /\ clusters' = [parent |-> u.parent, size |-> u.size]
              /\ root' = <<u.ret>>
              /\ union_frame' = Frame(a, b, u)
    /\ UNCHANGED <<xy_list, cutoff, pc, graph, i, good_vertices, bound_box, outcome>>
    /\ UNCHANGED scale_factor

NextUF == UnionCall

SpecUF == InitUF /\ [][NextUF]_vars

----------------------------------------------------------------------------
\* _fit_box and _scale_dimensions on their own: a point list is fitted, and
\* the fitted box is scaled by a factor.

Factors == { <<0 - 1, 1>>, <<0, 1>>, <<1, 2>>, <<1, 1>>, <<3, 2>>, <<2, 1>>, <<3, 1>> }

InitBox ==
    /\ xy_list = <<>>
    /\ cutoff = <<0, 1>>
    /\ pc = "box"
    /\ graph = <<>>
    /\ clusters = UnionFind(0)
    /\ i = 0
    /\ root = <<>>
    /\ union_frame = NoCall
    /\ good_vertices \in PointLists
    /\ bound_box = NoBox
    /\ scale_factor = <<>>
    /\ outcome = "running"

\* _fit_box(good_vertices)
FitBoxCall ==
    /\ pc = "box"
    /\ LET r == _fit_box(good_vertices)
       IN  /\ good_vertices' = r.list
           /\ IF r.ok
              THEN /\ bound_box' = r.box
                   /\ pc' = "fitted"
                   /\ UNCHANGED outcome
              ELSE /\ pc' = "raised"
                   /\ outcome' = "IndexError"
                   /\ UNCHANGED bound_box
    /\ UNCHANGED <<xy_list, cutoff, graph, clusters, i, root, union_frame, scale_factor>>

\* _scale_dimensions(bound_box, f)
ScaleCall ==
    /\ pc = "fitted"
    /\ \E f \in Factors :
          /\ scale_factor' = f
          /\ LET r == _scale_dimensions(bound_box, f)
             IN  IF r.ok
                 THEN /\ bound_box' = r.box
                      /\ pc' = "scaled"
                      /\ UNCHANGED outcome
                 ELSE /\ pc' = "raised"
                      /\ outcome' = "Exception"
                      /\ UNCHANGED bound_box
    /\ UNCHANGED <<xy_list, cutoff, graph, clusters, i, root, union_frame, good_vertices>>

NextBox ==
    \/ FitBoxCall
    \/ ScaleCall

SpecBox == InitBox /\ [][NextBox]_vars

----------------------------------------------------------------------------
\* Properties of the UnionFind class (checked under SpecUF)

Elements == 1..Len(clusters.parent)

Roots == {r \in Elements : clusters.parent[r] = r}

Component(k) == {m \in Elements : find(clusters, m) = find(clusters, k)}

\* Sum of size[r] over the roots r <= k.
RECURSIVE SumSizes(_)
SumSizes(k) ==
    IF k = 0 THEN 0
    ELSE (IF k \in Roots THEN clusters.size[k] ELSE 0) + SumSizes(k - 1)

\* C1: after any sequence of unions on UnionFind(n), size[find(k)] is the
\* number of elements whose find is find(k), for every k, and the sizes of the
\* current roots add up to n.
C1_SizeInvariant ==
    /\ \A k \in Elements :
          clusters.size[find(clusters, k)] = Cardinality(Component(k))
    /\ SumSizes(Len(clusters.parent)) = Len(clusters.parent)

\* A component of three or more elements beside another component.
C1_Witness ==
    /\ pc = "uf"
    /\ Cardinality(Roots) >= 2
    /\ \E r \in Roots : clusters.size[r] >= 3 /\ Cardinality(Component(r)) >= 3

\* C2: a union call whose two arguments already have the same root (a = b
\* included) changes no parent and no size entry and returns that root.
C2_IdempotentUnion ==
    [][ LET a == union_frame'.v_index_1
            b == union_frame'.v_index_2
        IN  (a \in Elements /\ b \in Elements
                /\ find(clusters, a) = find(clusters, b))
            => /\ clusters'.parent = clusters.parent
               /\ clusters'.size = clusters.size
               /\ root' = <<find(clusters, a)>>
      ]_vars

\* A union call on two different elements of one component has returned.
C2_Witness ==
    /\ pc = "uf"
    /\ union_frame.v_index_1 # union_frame.v_index_2
    /\ union_frame.i = union_frame.j
    /\ union_frame.i \in Elements
    /\ root = <<union_frame.i>>

\* C3: a union call on two different roots ri = find(a), rj = find(b) puts
\* the strictly smaller one under the other, rj under ri on a tie; the
\* survivor's size becomes the sum, the survivor is returned, and nothing but
\* the absorbed root's parent and the survivor's size changes.
C3_UnionBySize ==
    [][ LET a == union_frame'.v_index_1
            b == union_frame'.v_index_2
        IN  (a \in Elements /\ b \in Elements
                /\ find(clusters, a) # find(clusters, b))
            => LET ri == find(clusters, a)
                   rj == find(clusters, b)
                   survivor == IF clusters.size[ri] < clusters.size[rj] THEN rj ELSE ri
                   absorbed == IF clusters.size[ri] < clusters.size[rj] THEN ri ELSE rj
               IN  /\ clusters.size[ri] < clusters.size[rj] => clusters'.parent[ri] = rj
                   /\ clusters.size[rj] < clusters.size[ri] => clusters'.parent[rj] = ri
                   /\ clusters.size[ri] = clusters.size[rj] => clusters'.parent[rj] = ri
                   /\ clusters'.parent[survivor] = survivor
                   /\ clusters'.size[survivor] = clusters.size[ri] + clusters.size[rj]
                   /\ root' = <<survivor>>
                   /\ \A k \in Elements :
                         /\ k # absorbed => clusters'.parent[k] = clusters.parent[k]
                         /\ k # survivor => clusters'.size[k] = clusters.size[k]
      ]_vars

\* A call has merged a strictly smaller first tree into a larger second one,
\* with a third component untouched.
C3_Witness ==
    /\ pc = "uf"
    /\ union_frame.i \in Elements /\ union_frame.j \in Elements
    /\ union_frame.i # union_frame.j
    /\ clusters.parent[union_frame.i] = union_frame.j
    /\ root = <<union_frame.j>>
    /\ clusters.size[union_frame.j] >= 3
    /\ Cardinality(Roots) >= 2

----------------------------------------------------------------------------
\* Properties of _cluster_filter and bound_box_coords (checked under Spec)

n == Len(xy_list)

AfterLoop == pc \in {"select", "fit", "scale", "refilter", "refit", "done"}

Ended == pc \in {"done", "raised"}

PairwiseDistinct == \A a, b \in 1..n : a # b => xy_list[a] # xy_list[b]

AllCoincident == \A a \in 1..n : xy_list[a] = xy_list[1]

\* sz >= cutoff * n, written out.
AtLeastCutoff(sz) == sz * cutoff[2] >= cutoff[1] * n

\* Index m + 1 of Replay(k), m in 0..k: the union-find object, and the value
\* union returned, after unioning the endpoints of the first m entries of
\* graph, one after the other.
ReplayStep(before, k) ==
    Append(before,
           union([parent |-> before[k].parent, size |-> before[k].size],
                 coord_to_index(xy_list)[str(graph[k][2])],
                 coord_to_index(xy_list)[str(graph[k][3])]))

RECURSIVE Replay(_)
Replay(k) ==
    IF k = 0
    THEN << [parent |-> UnionFind(n).parent, size |-> UnionFind(n).size,
             ret |-> 0, i |-> 0, j |-> 0] >>
    ELSE ReplayStep(Replay(k - 1), k)

\* Size of v's component in a union-find object.
SizeOf(u, v) == u.size[find(u, v)]

\* C4: the edges are processed in ascending distance order; the loop stops
\* right after the first union whose returned component has size >=
\* cutoff * n and processes no later edge; the root of that union selects the
\* output; the size of its component never decreased on the way; when no
\* union reaches the threshold the loop exhausts the edges and root is the
\* last union's return value.
C4_EarlyStop ==
    (CutoffInRange(cutoff) /\ (pc = "loop" \/ AfterLoop))
    => /\ \A m \in 1..(Len(graph) - 1) : graph[m][1] <= graph[m + 1][1]
       /\ i <= Len(graph)
       /\ LET after == Replay(i)
              last == after[i + 1]
          IN  /\ \A k \in 1..n : /\ clusters.parent[k] = last.parent[k]
                               /\ clusters.size[k] = last.size[k]
              /\ \A m \in 1..(i - 1) : ~AtLeastCutoff(after[m + 1].size[after[m + 1].ret])
              /\ (pc = "loop" /\ i >= 1) => ~AtLeastCutoff(last.size[last.ret])
              /\ (AfterLoop /\ i >= 1)
                 => /\ root = <<last.ret>>
                    /\ AtLeastCutoff(clusters.size[root[1]]) \/ i = Len(graph)
                    /\ \A m \in 1..i :
                          SizeOf(after[m], root[1]) <= SizeOf(after[m + 1], root[1])
              /\ (pc = "fit" /\ i >= 1)
                 => good_vertices = Members(xy_list, clusters, <<last.ret>>)

\* The loop has stopped at its second union with an edge left unprocessed.
C4_Witness ==
    /\ pc = "select"
    /\ CutoffInRange(cutoff)
    /\ i = 2 /\ i < Len(graph)
    /\ AtLeastCutoff(clusters.size[root[1]])
    /\ ~AtLeastCutoff(Replay(1)[2].size[Replay(1)[2].ret])

\* C5: for n >= 2 points and a cutoff in [0, 1], the list _cluster_filter
\* returns holds at least cutoff * n points.
C5_CutoffFractionMet ==
    (pc = "fit" /\ n >= 2 /\ CutoffInRange(cutoff))
    => AtLeastCutoff(Len(good_vertices))

\* C6: a cutoff outside [0, 1] ends the call in InvalidParameterError.
C6_InvalidCutoffTypedFailure ==
    (Ended /\ ~CutoffInRange(cutoff)) => outcome = "InvalidParameterError"

\* C7: an empty point list with a cutoff in [0, 1] ends the call in
\* EmptyInputError.
C7_EmptyInputTypedFailure ==
    (Ended /\ n = 0 /\ CutoffInRange(cutoff)) => outcome = "EmptyInputError"

\* box a lies inside box b.
BoxInside(a, b) ==
    /\ b.min[1] * a.den <= a.min[1] * b.den /\ a.max[1] * b.den <= b.max[1] * a.den
    /\ b.min[2] * a.den <= a.min[2] * b.den /\ a.max[2] * b.den <= b.max[2] * a.den

\* point p lies outside box b.
Outside(p, b) ==
    \/ p[1] * b.den < b.min[1] \/ p[1] * b.den > b.max[1]
    \/ p[2] * b.den < b.min[2] \/ p[2] * b.den > b.max[2]

UnitSquare == << <<0, 0>>, <<1, 0>>, <<0, 1>>, <<1, 1>> >>

UnitBox == [min |-> <<0, 0>>, max |-> <<1, 1>>, den |-> 1]

\* C8: for n >= 2 points and a cutoff in [0, 1] the call returns, the box it
\* returns lies inside the scaled box around the cluster, and every input
\* point outside the scaled box is outside the returned box; for Scenario A
\* with cutoff 0.75 the cluster is the unit square's four points and the
\* returned box is [[0,0],[1,1]].
C8_OutlierExclusion ==
    /\ []((n >= 2 /\ CutoffInRange(cutoff)) => outcome \in {"running", "returned"})
    /\ [][ (n >= 2 /\ CutoffInRange(cutoff) /\ pc = "refit" /\ pc' # "refit")
           => /\ pc' = "done"
              /\ BoxInside(bound_box', bound_box)
              /\ \A k \in 1..n : Outside(xy_list[k], bound_box)
                                  => \/ xy_list[k][1] < bound_box'.min[1]
                                     \/ xy_list[k][1] > bound_box'.max[1]
                                     \/ xy_list[k][2] < bound_box'.min[2]
                                     \/ xy_list[k][2] > bound_box'.max[2]
      ]_vars
    /\ []((xy_list = ScenarioA /\ cutoff = <<3, 4>>)
          => /\ pc = "fit" => good_vertices = UnitSquare
             /\ pc = "done" => bound_box = UnitBox)

\* Scenario A has returned, and the outlier is outside the returned box.
C8_Witness ==
    /\ pc = "done"
    /\ xy_list = ScenarioA /\ cutoff = <<3, 4>>
    /\ bound_box = UnitBox
    /\ ~(50 <= bound_box.max[1]) /\ ~(50 <= bound_box.max[2])

\* C9: k >= 2 copies of one point p and a cutoff in [0, 1]: the call returns
\* the box [p, p].
C9_AllCoincident ==
    (n >= 2 /\ AllCoincident /\ CutoffInRange(cutoff))
    => /\ outcome \in {"running", "returned"}
       /\ pc = "done"
          => bound_box = [min |-> xy_list[1], max |-> xy_list[1], den |-> 1]

\* Three or more copies of one point, cutoff 1, and the call has returned.
C9_Witness ==
    /\ pc = "done"
    /\ n >= 3 /\ AllCoincident
    /\ cutoff = <<1, 1>>
    /\ bound_box = [min |-> xy_list[1], max |-> xy_list[1], den |-> 1]

\* C10: n >= 2 pairwise distinct points and cutoff 0: the loop runs once, on
\* the first edge of the sorted list, whose distance is the least of all
\* pairs, and the list returned holds exactly that edge's two endpoints.
C10_CutoffZero ==
    (n >= 2 /\ PairwiseDistinct /\ cutoff = <<0, 1>>)
    => /\ pc = "loop" => i = 0
       /\ AfterLoop
          => /\ i = 1
             /\ xy_list[union_frame.v_index_1] = graph[1][2]
             /\ xy_list[union_frame.v_index_2] = graph[1][3]
             /\ \A a, b \in 1..n : a # b => graph[1][1] <= Edge(xy_list[a], xy_list[b])[1]
             /\ Cardinality({find(clusters, k) : k \in 1..n}) = n - 1
       /\ pc = "fit"
          => /\ Len(good_vertices) = 2
             /\ {good_vertices[1], good_vertices[2]} = {graph[1][2], graph[1][3]}

\* Three distinct points whose closest pair is not the first pair of the
\* input, cutoff 0, and the cluster has been selected.
C10_Witness ==
    /\ pc = "fit"
    /\ n >= 3 /\ PairwiseDistinct /\ cutoff = <<0, 1>>
    /\ Edge(xy_list[1], xy_list[2])[1] > graph[1][1]
    /\ Len(good_vertices) = 2

----------------------------------------------------------------------------
\* Properties of _fit_box and _scale_dimensions (checked under SpecBox)

\* C11: for a non-empty list _fit_box returns [[x_min, y_min], [x_max, y_max]]
\* with every point of the list inside it, each bound the coordinate of some
\* point of the list, and x_min <= x_max, y_min <= y_max.
C11_TightFit ==
    [][ (pc = "box" /\ Len(good_vertices) >= 1 /\ pc' # "box")
        => /\ pc' = "fitted"
           /\ bound_box'.den = 1
           /\ \A k \in 1..Len(good_vertices) :
                 /\ bound_box'.min[1] <= good_vertices[k][1]
                 /\ good_vertices[k][1] <= bound_box'.max[1]
                 /\ bound_box'.min[2] <= good_vertices[k][2]
                 /\ good_vertices[k][2] <= bound_box'.max[2]
           /\ \E k \in 1..Len(good_vertices) : good_vertices[k][1] = bound_box'.min[1]
           /\ \E k \in 1..Len(good_vertices) : good_vertices[k][1] = bound_box'.max[1]
           /\ \E k \in 1..Len(good_vertices) : good_vertices[k][2] = bound_box'.min[2]
           /\ \E k \in 1..Len(good_vertices) : good_vertices[k][2] = bound_box'.max[2]
           /\ bound_box'.min[1] <= bound_box'.max[1]
           /\ bound_box'.min[2] <= bound_box'.max[2]
      ]_vars

\* A list of three points has been fitted, and no single point of it has both
\* the least x and the least y, nor both the greatest x and the greatest y.
C11_Witness ==
    /\ pc = "fitted"
    /\ Len(good_vertices) >= 3
    /\ bound_box.min[1] < bound_box.max[1]
    /\ bound_box.min[2] < bound_box.max[2]
    /\ \A k \in 1..Len(good_vertices) :
          good_vertices[k] # bound_box.min /\ good_vertices[k] # bound_box.max

\* C12: for a box with min <= max and a factor > 0, _scale_dimensions returns
\* a box with the same centre whose x and y half-extents are factor times the
\* original ones; for factor 1 the result equals the input box.
C12_ScaleAboutCentre ==
    [][ (pc = "fitted" /\ pc' # "fitted" /\ scale_factor'[1] > 0)
        => /\ pc' = "scaled"
           /\ \A a \in {1, 2} :
                 /\ (bound_box'.min[a] + bound_box'.max[a]) * bound_box.den
                       = (bound_box.min[a] + bound_box.max[a]) * bound_box'.den
                 /\ (bound_box'.max[a] - bound_box'.min[a]) * bound_box.den * scale_factor'[2]
                       = scale_factor'[1] * (bound_box.max[a] - bound_box.min[a]) * bound_box'.den
                 /\ scale_factor' = <<1, 1>>
                    => /\ bound_box'.min[a] * bound_box.den = bound_box.min[a] * bound_box'.den
                       /\ bound_box'.max[a] * bound_box.den = bound_box.max[a] * bound_box'.den
      ]_vars

\* A box of positive width and height has been scaled by 3/2: the result has
\* three halves of its width.
C12_Witness ==
    /\ pc = "scaled"
    /\ scale_factor = <<3, 2>>
    /\ Len(good_vertices) >= 2
    /\ bound_box.den = 4
    /\ bound_box.max[1] - bound_box.min[1] = 6
    /\ bound_box.max[2] - bound_box.min[2] = 6

\* f1 < f2, for factors <<num, den>>.
FactorLess(f1, f2) == f1[1] * f2[2] < f2[1] * f1[2]

\* C13: for a box with min <= max and factors f2 > f1 > 0, the box scaled by
\* f2 contains the box scaled by f1.  Stated of the box a _scale_dimensions
\* call has returned, against the same input box scaled by every other factor.
C13_ScaleMonotone ==
    pc = "scaled"
    => \A f \in Factors :
          f[1] > 0
          => /\ FactorLess(f, scale_factor)
                => BoxInside(_scale_dimensions(_fit_box(good_vertices).box, f).box, bound_box)
             /\ FactorLess(scale_factor, f)
                => BoxInside(bound_box, _scale_dimensions(_fit_box(good_vertices).box, f).box)

\* A box of positive width and height has been scaled by 1, with a smaller
\* and a larger factor to compare with.
C13_Witness ==
    /\ pc = "scaled"
    /\ scale_factor = <<1, 1>>
    /\ bound_box.min[1] < bound_box.max[1]
    /\ bound_box.min[2] < bound_box.max[2]
    /\ \E f \in Factors : f[1] > 0 /\ FactorLess(f, scale_factor)
    /\ \E f \in Factors : FactorLess(scale_factor, f)

\* C14: _scale_dimensions with a factor <= 0 ends in InvalidParameterError
\* and returns no box.
C14_NonPositiveFactorTypedFailure ==
    (pc = "raised" /\ Len(scale_factor) = 2 /\ scale_factor[1] <= 0)
    => outcome = "InvalidParameterError"

\* C14, as the source has it: _scale_dimensions with a factor <= 0 raises
\* Exception("scaling factor must be positive") and returns no box.
C14_NonPositiveFactorRaises ==
    [][ (pc = "fitted" /\ pc' # "fitted" /\ scale_factor'[1] <= 0)
        => /\ pc' = "raised"
           /\ outcome' = "Exception"
           /\ bound_box' = bound_box
      ]_vars

\* A box has been fitted and the call with factor 0 has raised.
C14_Witness ==
    /\ pc = "raised"
    /\ scale_factor = <<0, 1>>
    /\ outcome = "Exception"
    /\ bound_box.den = 1

----------------------------------------------------------------------------
\* Further properties of _cluster_filter and bound_box_coords (checked under
\* Spec)

\* The number of entries of graph with distance 0.
ZeroEdges == Cardinality({k \in 1..Len(graph) : graph[k][1] = 0})

\* C15: once the loop has processed every zero-distance edge, two positions
\* holding identical coordinates are in the same union-find component, and
\* the returned cluster holds both copies or neither.
C15_CoincidentMergedFirst ==
    (CutoffInRange(cutoff) /\ (pc = "loop" \/ AfterLoop) /\ i >= ZeroEdges)
    => \A a, b \in 1..n :
          (a # b /\ xy_list[a] = xy_list[b])
          => /\ find(clusters, a) = find(clusters, b)
             /\ (pc = "fit" /\ root # <<>>)
                => (find(clusters, a) = root[1] <=> find(clusters, b) = root[1])

\* C16: with a cutoff outside [0, 1] the call fails before any other step of
\* the pipeline has run: it never stands past the construction of the graph
\* with the cutoff still unvalidated.
C16_FailFast ==
    (~CutoffInRange(cutoff) /\ pc # "start") => (pc = "raised" /\ graph = <<>>)

----------------------------------------------------------------------------
\* Further properties of the UnionFind class (checked under SpecUF)

\* The indices met when following parent links from v, v first, for at most
\* fuel links.
RECURSIVE PathFrom(_, _, _)
PathFrom(parent, v, fuel) ==
    IF parent[v] = v \/ fuel = 0
    THEN <<v>>
    ELSE <<v>> \o PathFrom(parent, parent[v], fuel - 1)

\* Following parent links from every index reaches a root without meeting an
\* index twice.
IsForest(parent) ==
    \A k \in 1..Len(parent) :
       /\ parent[k] \in 1..Len(parent)
       /\ parent[PathFrom(parent, k, Len(parent))[Len(PathFrom(parent, k, Len(parent)))]]
              = PathFrom(parent, k, Len(parent))[Len(PathFrom(parent, k, Len(parent)))]
       /\ \A a, b \in 1..Len(PathFrom(parent, k, Len(parent))) :
             a # b => PathFrom(parent, k, Len(parent))[a] # PathFrom(parent, k, Len(parent))[b]

\* C17: after every union the parent array is a forest; find(k) ends, for
\* every k, at the root its parent links lead to; the root the union returned
\* is a root; and a root stops being one only when this union absorbs it
\* into the root it returns.
C17_FindConsistency ==
    [][ /\ IsForest(clusters'.parent)
        /\ \A k \in 1..Len(clusters'.parent) :
              /\ find(clusters', k)
                    = PathFrom(clusters'.parent, k, Len(clusters'.parent))
                         [Len(PathFrom(clusters'.parent, k, Len(clusters'.parent)))]
              /\ clusters'.parent[find(clusters', k)] = find(clusters', k)
        /\ Len(root') = 1
        /\ find(clusters', root'[1]) = root'[1]
        /\ \A r \in Elements :
              (clusters.parent[r] = r /\ clusters'.parent[r] # r)
              => /\ r \in {union_frame'.i, union_frame'.j}
                 /\ r # root'[1]
                 /\ clusters'.parent[r] = root'[1]
                 /\ clusters'.size[root'[1]] > clusters.size[r]
      ]_vars

\* A root that an earlier union returned has been absorbed: a tree of depth
\* two stands, its root the value just returned.
C17_Witness ==
    /\ pc = "uf"
    /\ Len(root) = 1
    /\ clusters.parent[root[1]] = root[1]
    /\ \E k \in Elements :
          /\ clusters.parent[k] # k
          /\ clusters.parent[clusters.parent[k]] # clusters.parent[k]
          /\ clusters.parent[clusters.parent[k]] = root[1]
          /\ union_frame.j = clusters.parent[k]

----------------------------------------------------------------------------
\* The list _cluster_filter returns (checked under Spec)

\* The positions whose find is the captured root.
Winning == {k \in 1..n : find(clusters, k) = root[1]}

\* C18: for n >= 2 and a cutoff in [0, 1], the list _cluster_filter returns
\* holds xy_list[k] for exactly the positions k with find(k) = root, in
\* increasing order of k, and its length is clusters.size[root].
C18_ClusterIsWinningComponent ==
    (pc = "fit" /\ n >= 2 /\ CutoffInRange(cutoff))
    => /\ Len(root) = 1
       /\ Len(good_vertices) = Cardinality(Winning)
       /\ Len(good_vertices) = clusters.size[root[1]]
       /\ \A m \in 1..Len(good_vertices) :
             \E k \in Winning :
                /\ Cardinality({j \in Winning : j <= k}) = m
                /\ good_vertices[m] = xy_list[k]

\* Three points, the first left out of a two-point cluster whose points are
\* not in sorted order.
C18_Witness ==
    /\ pc = "fit" /\ n = 3 /\ CutoffInRange(cutoff)
    /\ Winning = {2, 3}
    /\ good_vertices = <<xy_list[2], xy_list[3]>>
    /\ xy_list[2][1] > xy_list[3][1]
    /\ clusters.size[root[1]] = 2

----------------------------------------------------------------------------
\* The caller's list (checked under Spec)

\* The positions of xy_list that are not outside bound_box.
Readmitted == {k \in 1..n : ~Outside(xy_list[k], bound_box)}

\* C19: no step of bound_box_coords changes xy_list, the in-place sorts of
\* _fit_box included; the re-filter of step 5 yields the points of xy_list
\* inside the scaled box in the order the caller gave them.
C19_InputNotMutated ==
    [][ /\ xy_list' = xy_list
        /\ pc = "refilter"
           => /\ Len(good_vertices') = Cardinality(Readmitted)
              /\ \A m \in 1..Len(good_vertices') :
                    \E k \in Readmitted :
                       /\ Cardinality({j \in Readmitted : j <= k}) = m
                       /\ good_vertices'[m] = xy_list[k]
      ]_vars

\* The call has returned for a list given in descending x order, which both
\* _fit_box calls sorted their copies of.
C19_Witness ==
    /\ pc = "done" /\ outcome = "returned"
    /\ n = 3
    /\ xy_list[1][1] > xy_list[3][1]
    /\ Len(good_vertices) = 3
    /\ good_vertices # xy_list
    /\ good_vertices = sort(sort(xy_list, 1), 2)

\* C20: for n >= 1 points and a cutoff in [0, 1] the call never raises; root
\* is bound when the membership test is evaluated; the cluster and the
\* re-admitted list are non-empty; the box returned has min <= max on both
\* axes and holds every point of the cluster; for a single point p the box
\* is [p, p].
C20_NonEmptyInputYieldsBox ==
    (n >= 1 /\ CutoffInRange(cutoff))
    => /\ pc # "raised"
       /\ AfterLoop => Len(root) = 1
       /\ pc \in {"fit", "scale", "refilter", "refit", "done"} => Len(good_vertices) >= 1
       /\ pc = "done"
          => /\ bound_box.min[1] <= bound_box.max[1]
             /\ bound_box.min[2] <= bound_box.max[2]
             /\ \A k \in Winning : ~Outside(xy_list[k], bound_box)
             /\ n = 1 => (bound_box.min = xy_list[1] /\ bound_box.max = xy_list[1])

====
